---- MODULE Spec2Model ----
(***************************************************************************)
(* Skrive: the encrypted local storage core (utils/crypto, utils/storage)  *)
(* and the application shell that drives it (App, PasswordPrompt,          *)
(* AppProvider).                                                           *)
(*                                                                         *)
(* Spec     the exported functions of the storage core, called in any      *)
(*          order, with process restarts.                                  *)
(* SpecNonce  the storage core with the random source tracked: no draw of  *)
(*          randombytes_buf returns a value it returned before.            *)
(* SpecHost the storage core on a device whose libsodium build may gain or *)
(*          lose AEGIS-256 between two page loads.                         *)
(* SpecInit initCrypto and encrypt as the suspended calls they are: every  *)
(*          await is a step, so calls overlap.                             *)
(* SpecImport  the provider's importData over backup files at and around   *)
(*          the import ceilings, with the user's dispatches in between.    *)
(* SpecUrl  share links opened in the browser and extractKeyFromUrl read-  *)
(*          ing the key from the fragment.                                 *)
(* SpecFolders  the reducer's folder tree under ADD_FOLDER, UPDATE_FOLDER,  *)
(*          ADD_NOTE and DELETE_FOLDER, parent links of any shape.         *)
(* SpecUndo the editor's useUndoRedo hook: pushState, undo, redo and reset  *)
(*          called through the closures of the last render, and renders.   *)
(* SpecApp  the deployed application: boot, password prompt, provider      *)
(*          mount with its two effects, user edits, restarts, and the      *)
(*          upgrade from the random-key release to the password release.   *)
(*                                                                         *)
(* Cryptography is symbolic: a ciphertext names the key and nonce that     *)
(* made it and opens under that key and nonce only.  A value that may be   *)
(* null is a sequence: <<>> is null, <<v>> is v.                           *)
(***************************************************************************)
EXTENDS Naturals, Sequences, FiniteSets, TLC

VARIABLES
    localStorage,        \* the browser's persisted key-value store
    masterKey,           \* crypto.ts: let masterKey
    isInitialized,       \* crypto.ts: let isInitialized
    preferredAlgorithm,  \* crypto.ts: let preferredAlgorithm
    hostAegis,           \* whether libsodium exposes crypto_aead_aegis256_*
    release,             \* which generation of the application is deployed
    appPc,               \* App: what the shell renders
    initPc,              \* AppProvider: position of initApp
    appState,            \* AppProvider: the reducer's lang/notes/tags/folders
    pendingSaves,        \* AppProvider: saves awaiting their encrypt
    last,                \* history: the latest operation and its outcome
    kept,                \* history: the data a completed migration found stored
    unreadable,          \* history: the blob a failed load left behind
    interrupted,         \* history: the password of a migration that was cut short
    journey,             \* history: progress of set-up, save, restart, unlock
    drawn,               \* history: the nonces randombytes_buf has returned (SpecNonce)
    calls,               \* crypto.ts: the initCrypto/encrypt calls that are suspended
    chosen,              \* history: the algorithm the first completed initCrypto set
    uiState,             \* AppProvider: the reducer's state, selection included
    importPc,            \* AppProvider: position of an importData call
    location,            \* window.location: the search and the fragment of the URL
    tree,                \* AppProvider: the reducer's folders and notes with their parentId links
    hook                 \* useUndoRedo: its state, its ref, and what the last render captured

coreVars == <<localStorage, masterKey, isInitialized, preferredAlgorithm, hostAegis,
              release, appPc, initPc, appState, pendingSaves, last, kept, unreadable,
              interrupted, journey, drawn>>
\* the state of the components modelled beside the storage core
sideVars == <<calls, chosen, uiState, importPc, location, tree, hook>>

vars == <<coreVars, sideVars>>

cryptoVars == <<masterKey, isInitialized, preferredAlgorithm>>
appVars == <<release, appPc, initPc, appState, pendingSaves>>
history == <<kept, unreadable, interrupted>>
NoJourney == [stage |-> "none", pw |-> "", state |-> <<>>]

----------------------------------------------------------------------------
(* Bounds *)

\* items (notes, tags, folders) a stored state may hold of each kind
MaxItems == 1
\* saves the provider may have in flight
MaxPending == 2

Passwords == {"correct-horse-battery", "wrong-password"}
ShortPasswords == {"short"}
Langs == {"no", "en"}
\* "random-key": App mounts the provider at once and initApp loads or draws
\* the key kept under 'skrive-key'; "password": App asks for the password first
Releases == {"random-key", "password"}
\* the values sodium.randombytes_buf / crypto_secretbox_keygen may return
Nonces == {"nonce-1"}
Salts == {"salt-1", "salt-2"}
KeyIds == {"key-1", "key-2"}

----------------------------------------------------------------------------
(* Storage slots *)

STORAGE_KEY == "skrive-state"
ENCRYPTED_STORAGE_KEY == "skrive-encrypted"
KEY_STORAGE_KEY == "skrive-key"
SALT_STORAGE_KEY == "skrive-salt"
KEY_VERIFICATION_KEY == "skrive-key-verify"

StorageKeys == {STORAGE_KEY, ENCRYPTED_STORAGE_KEY, KEY_STORAGE_KEY,
                SALT_STORAGE_KEY, KEY_VERIFICATION_KEY}

Null == <<>>
Some(v) == <<v>>
Get(x) == x[1]

EmptyStorage == [k \in StorageKeys |-> Null]
getItem(ls, k) == ls[k]
setItem(ls, k, v) == [ls EXCEPT ![k] = Some(v)]
removeItem(ls, k) == [ls EXCEPT ![k] = Null]

\* what may go wrong inside an operation: nothing, the cipher call throws,
\* or localStorage.setItem throws (quota, storage disabled)
Faults == {"none", "encrypt", "setItem"}

----------------------------------------------------------------------------
(* Application data *)

Note1 == [id |-> "n1", title |-> "N1", parentId |-> Null]
Tag1 == [id |-> "t1", name |-> "work"]
Folder1 == [id |-> "f1", name |-> "inbox", parentId |-> Null]

RECURSIVE Repeat(_, _)
Repeat(x, n) == IF n = 0 THEN <<>> ELSE Append(Repeat(x, n - 1), x)

\* storage.ts: interface StoredState; the three collections grow together
StoredStates ==
    {[lang |-> l, notes |-> Repeat(Note1, k), tags |-> Repeat(Tag1, k),
      folders |-> Repeat(Folder1, k)] : l \in Langs, k \in 0..MaxItems}

\* AppContext.tsx: const initialState (the four persisted fields)
initialState == [lang |-> "no", notes |-> <<>>, tags |-> <<>>, folders |-> <<>>]

----------------------------------------------------------------------------
(* Encodings *)

\* JSON.stringify / JSON.parse: a text that is not the value it encodes
JSON_stringify(v) == <<"json", v>>
JSON_parse(t) == t[2]

\* sodium.to_base64 / sodium.from_base64 (URLSAFE_NO_PADDING)
to_base64(bytes) == <<"b64", bytes>>
from_base64(text) == text[2]

exportKeyToBase64(key) == to_base64(key)
importKeyFromBase64(base64Key) == from_base64(base64Key)

\* sodium.from_string / sodium.to_string (UTF-8)
from_string(str) == <<"utf8", str>>
to_string(bytes) == bytes[2]

VerificationToken == <<"skrive-verification-token">>

----------------------------------------------------------------------------
(* Keys *)

\* sodium.crypto_secretbox_keygen: a 256-bit random key
RandomKey(i) == [kind |-> "random", id |-> i, pw |-> "", salt |-> ""]

\* sodium.crypto_pwhash(32, password, salt, INTERACTIVE, INTERACTIVE, ARGON2ID13)
crypto_pwhash(password, salt) == [kind |-> "pwhash", id |-> "", pw |-> password, salt |-> salt]

\* every key the model can form
AllKeys ==
    {RandomKey(i) : i \in KeyIds} \cup {crypto_pwhash(p, s) : p \in Passwords, s \in Salts}

\* a probe that would find AEGIS-256 on the first look only
DetectAlgorithmOnce == IF hostAegis /\ ~isInitialized THEN "aegis256" ELSE "xchacha20"

\* initCrypto: the algorithm it fixes on this host
DetectAlgorithm == IF hostAegis THEN "aegis256" ELSE "xchacha20"

\* preferredAlgorithm once initCrypto has run (every crypto call awaits it first)
AlgorithmAfterInit == IF isInitialized THEN preferredAlgorithm ELSE DetectAlgorithm

----------------------------------------------------------------------------
(* Authenticated encryption *)

NonceBytes(algorithm) == IF algorithm = "aegis256" THEN 32 ELSE 24

\* an AEGIS-256 encrypt that would draw the 24-byte nonce of the other algorithm
encryptAegis256ShortNonce(plaintext, key, n) ==
    LET nonce == [len |-> 24, id |-> n]
    IN  [algorithm |-> "aegis256",
         nonce |-> to_base64(nonce),
         ciphertext |-> to_base64([key |-> key, nonce |-> nonce, pt |-> plaintext]),
         version |-> 1]

encryptAegis256(plaintext, key, n) ==
    LET nonce == [len |-> 32, id |-> n]
    IN  [algorithm |-> "aegis256",
         nonce |-> to_base64(nonce),
         ciphertext |-> to_base64([key |-> key, nonce |-> nonce, pt |-> plaintext]),
         version |-> 1]

\* an XChaCha20 encrypt that would use one nonce for every message
encryptXChaCha20FixedNonce(plaintext, key, n) ==
    LET nonce == [len |-> 24, id |-> "nonce-1"]
    IN  [algorithm |-> "xchacha20",
         nonce |-> to_base64(nonce),
         ciphertext |-> to_base64([key |-> key, nonce |-> nonce, pt |-> plaintext]),
         version |-> 1]

encryptXChaCha20(plaintext, key, n) ==
    LET nonce == [len |-> 24, id |-> n]
    IN  [algorithm |-> "xchacha20",
         nonce |-> to_base64(nonce),
         ciphertext |-> to_base64([key |-> key, nonce |-> nonce, pt |-> plaintext]),
         version |-> 1]

\* encrypt(plaintext, key) with the nonce n that randombytes_buf returns
encrypt(plaintext, key, n) ==
    IF AlgorithmAfterInit = "aegis256" /\ hostAegis
    THEN encryptAegis256(from_string(plaintext), key, n)
    ELSE encryptXChaCha20(from_string(plaintext), key, n)

\* an open that would hand out the plaintext without verifying the tag
aeadOpenUnverified(ciphertext, nonce, key) == Some(ciphertext.pt)

\* the AEAD open: the plaintext bytes, or Null when the tag does not verify
aeadOpen(ciphertext, nonce, key) ==
    IF ciphertext.key = key /\ ciphertext.nonce = nonce THEN Some(ciphertext.pt) ELSE Null

decryptAegis256(ciphertext, nonce, key) ==
    IF hostAegis THEN aeadOpen(ciphertext, nonce, key) ELSE Null

decryptXChaCha20(ciphertext, nonce, key) == aeadOpen(ciphertext, nonce, key)

\* decrypt(encryptedData, key): Some(plaintext), or Null where the code throws
decrypt(encryptedData, key) ==
    LET nonce == from_base64(encryptedData.nonce)
        ciphertext == from_base64(encryptedData.ciphertext)
        plaintext == IF encryptedData.algorithm = "aegis256"
                     THEN decryptAegis256(ciphertext, nonce, key)
                     ELSE decryptXChaCha20(ciphertext, nonce, key)
    IN  IF plaintext = Null THEN Null ELSE Some(to_string(Get(plaintext)))

----------------------------------------------------------------------------
(* Key lifecycle (utils/crypto.ts) *)

\* what every function that awaits initCrypto() leaves behind
InitCryptoEffect ==
    /\ isInitialized' = TRUE
    /\ preferredAlgorithm' = AlgorithmAfterInit

Outcome(op, arg, out, val) == [op |-> op, arg |-> arg, out |-> out, val |-> val]

initCrypto ==
    /\ InitCryptoEffect
    /\ last' = Outcome("initCrypto", Null, "void", Null)
    /\ UNCHANGED <<localStorage, masterKey, hostAegis, appVars, history, journey>>

\* getOrCreateSalt: the salt it returns when randombytes_buf would give s
SaltOf(ls, s) ==
    IF getItem(ls, SALT_STORAGE_KEY) /= Null
    THEN from_base64(Get(getItem(ls, SALT_STORAGE_KEY)))
    ELSE s

\* a getOrCreateSalt that would write the salt it drew over the stored one
StorageAfterSaltRedrawn(ls, s) == setItem(ls, SALT_STORAGE_KEY, to_base64(s))

\* getOrCreateSalt: the store it leaves
StorageAfterSalt(ls, s) ==
    IF getItem(ls, SALT_STORAGE_KEY) /= Null
    THEN ls
    ELSE setItem(ls, SALT_STORAGE_KEY, to_base64(s))

\* getOrCreateSalt throws when it has to write the salt and the write fails
SaltThrows(ls, fault) == getItem(ls, SALT_STORAGE_KEY) = Null /\ fault = "setItem"

deriveKeyFromPassword(ls, password, s) == crypto_pwhash(password, SaltOf(ls, s))

\* the keys some slot, blob or variable still refers to: a key that
\* crypto_secretbox_keygen draws is none of them
KeyOfBlob(slot) ==
    IF slot = Null THEN {} ELSE {from_base64(JSON_parse(Get(slot)).encrypted.ciphertext).key}

KeysInUse ==
    (IF masterKey = Null THEN {} ELSE {Get(masterKey)})
    \cup (IF getItem(localStorage, KEY_STORAGE_KEY) = Null THEN {}
          ELSE {importKeyFromBase64(Get(getItem(localStorage, KEY_STORAGE_KEY)))})
    \cup KeyOfBlob(getItem(localStorage, ENCRYPTED_STORAGE_KEY))
    \cup {pendingSaves[i].key : i \in 1..Len(pendingSaves)}

FreshKeys == {RandomKey(i) : i \in KeyIds} \ KeysInUse

\* initializeEncryption (random-key generation): load the stored key, or draw
\* a key and persist it
InitEncKey(ls, newKey) ==
    IF getItem(ls, KEY_STORAGE_KEY) /= Null
    THEN Some(importKeyFromBase64(Get(getItem(ls, KEY_STORAGE_KEY))))
    ELSE Some(newKey)

InitEncThrows(ls, fault) == getItem(ls, KEY_STORAGE_KEY) = Null /\ fault = "setItem"

InitEncStorage(ls, newKey, fault) ==
    IF getItem(ls, KEY_STORAGE_KEY) /= Null \/ fault = "setItem"
    THEN ls
    ELSE setItem(ls, KEY_STORAGE_KEY, exportKeyToBase64(newKey))

\* the keys crypto_secretbox_keygen may return where it is called
KeyChoices ==
    IF getItem(localStorage, KEY_STORAGE_KEY) /= Null
    THEN {importKeyFromBase64(Get(getItem(localStorage, KEY_STORAGE_KEY)))}
    ELSE FreshKeys

initializeEncryption(newKey, fault) ==
    /\ InitCryptoEffect
    /\ masterKey' = InitEncKey(localStorage, newKey)
    /\ localStorage' = InitEncStorage(localStorage, newKey, fault)
    /\ last' = Outcome("initializeEncryption", Null,
                       IF InitEncThrows(localStorage, fault) THEN "throws" ELSE "void", Null)
    /\ journey' = NoJourney
    /\ UNCHANGED <<hostAegis, appVars, history>>

\* a clear that would drop the reference and leave the bytes in the buffer
fillKeepsBytes(buffer) == buffer

\* Uint8Array.prototype.fill(0) on a key buffer: every byte is 0 afterwards
fill0(buffer) == [kind |-> "zeros", id |-> "", pw |-> "", salt |-> ""]

\* clearMasterKey: last.arg is the buffer it was called on, last.val what
\* that buffer holds afterwards
clearMasterKey ==
    /\ masterKey' = Null
    /\ last' = Outcome("clearMasterKey", masterKey, "void",
                       IF masterKey = Null THEN Null ELSE Some(fill0(Get(masterKey))))
    /\ journey' = NoJourney
    /\ UNCHANGED <<localStorage, isInitialized, preferredAlgorithm, hostAegis,
                   appVars, history>>

\* setupPasswordEncryption(password): the store, the key and whether it threw,
\* when the salt drawn would be s, the nonce n and the fault as given
SetupThrows(ls, fault) == SaltThrows(ls, fault) \/ fault /= "none"

SetupKey(ls, mk, password, s, fault) ==
    IF SaltThrows(ls, fault) THEN mk ELSE Some(deriveKeyFromPassword(ls, password, s))

SetupStorage(ls, password, s, n, fault) ==
    IF SaltThrows(ls, fault) THEN ls
    ELSE IF fault /= "none" THEN StorageAfterSalt(ls, s)
    ELSE setItem(StorageAfterSalt(ls, s), KEY_VERIFICATION_KEY,
                 JSON_stringify(encrypt(VerificationToken,
                                        deriveKeyFromPassword(ls, password, s), n)))

setupPasswordEncryption(password, s, n, fault) ==
    /\ InitCryptoEffect
    /\ masterKey' = SetupKey(localStorage, masterKey, password, s, fault)
    /\ localStorage' = SetupStorage(localStorage, password, s, n, fault)
    /\ last' = Outcome("setupPasswordEncryption", Some(password),
                       IF SetupThrows(localStorage, fault) THEN "throws" ELSE "void", Null)
    /\ journey' = IF localStorage = EmptyStorage /\ ~SetupThrows(localStorage, fault)
                  THEN [stage |-> "setup", pw |-> password, state |-> Null]
                  ELSE NoJourney
    /\ UNCHANGED <<hostAegis, appVars, history>>

\* unlockWithPassword: does the candidate key open the stored verification record
VerifiesPassword(ls, key) ==
    /\ getItem(ls, KEY_VERIFICATION_KEY) /= Null
    /\ LET verificationData == JSON_parse(Get(getItem(ls, KEY_VERIFICATION_KEY)))
           decrypted == decrypt(verificationData, key)
       IN  decrypted /= Null /\ Get(decrypted) = VerificationToken

\* an unlock that would accept any password once a record is stored
UnlockOutcomeAnyPassword(ls, password, s, fault) ==
    IF SaltThrows(ls, fault) THEN "throws"
    ELSE IF getItem(ls, KEY_VERIFICATION_KEY) = Null
         THEN (IF fault /= "none" THEN "throws" ELSE "true")
         ELSE "true"

UnlockOutcome(ls, password, s, fault) ==
    IF SaltThrows(ls, fault) THEN "throws"
    ELSE IF getItem(ls, KEY_VERIFICATION_KEY) = Null
         THEN (IF fault /= "none" THEN "throws" ELSE "true")
         ELSE IF VerifiesPassword(ls, deriveKeyFromPassword(ls, password, s))
              THEN "true" ELSE "false"

\* an unlock that would verify the password and forget to set the key
UnlockKeyUnset(ls, mk, password, s, fault) == mk

UnlockKey(ls, mk, password, s, fault) ==
    IF SaltThrows(ls, fault) THEN mk
    ELSE IF getItem(ls, KEY_VERIFICATION_KEY) = Null
         THEN SetupKey(StorageAfterSalt(ls, s), mk, password, s, fault)
         ELSE IF VerifiesPassword(ls, deriveKeyFromPassword(ls, password, s))
              THEN Some(deriveKeyFromPassword(ls, password, s))
              ELSE mk

\* an unlock that would discard the record a wrong password did not open
UnlockStorageDropsRecord(ls, password, s, n, fault) ==
    IF SaltThrows(ls, fault) THEN ls
    ELSE IF getItem(ls, KEY_VERIFICATION_KEY) = Null
         THEN SetupStorage(StorageAfterSalt(ls, s), password, s, n, fault)
         ELSE IF VerifiesPassword(ls, deriveKeyFromPassword(ls, password, s))
              THEN StorageAfterSalt(ls, s)
              ELSE removeItem(StorageAfterSalt(ls, s), KEY_VERIFICATION_KEY)

UnlockStorage(ls, password, s, n, fault) ==
    IF SaltThrows(ls, fault) THEN ls
    ELSE IF getItem(ls, KEY_VERIFICATION_KEY) = Null
         THEN SetupStorage(StorageAfterSalt(ls, s), password, s, n, fault)
         ELSE StorageAfterSalt(ls, s)

unlockWithPassword(password, s, n, fault) ==
    /\ InitCryptoEffect
    /\ masterKey' = UnlockKey(localStorage, masterKey, password, s, fault)
    /\ localStorage' = UnlockStorage(localStorage, password, s, n, fault)
    /\ last' = Outcome("unlockWithPassword", Some(password),
                       UnlockOutcome(localStorage, password, s, fault), Null)
    /\ journey' = IF journey.stage = "restarted" /\ journey.pw = password
                  THEN [journey EXCEPT !.stage = "unlocked"]
                  ELSE NoJourney
    /\ UNCHANGED <<hostAegis, appVars, history>>

isPasswordEncryptionSetup(ls) == getItem(ls, KEY_VERIFICATION_KEY) /= Null
hasLegacyKeyStorage(ls) == getItem(ls, KEY_STORAGE_KEY) /= Null

\* migrateFromLegacyKey(password): how far the body gets before it throws
\*   "noLegacy"  no 'skrive-key': return false before the try
\*   "derive"    deriveKeyFromPassword threw (the salt could not be written)
\*   "encrypt"   encrypt of the verification token threw
\*   "setItem"   writing the verification record threw
\*   "done"      ran to the end: return true
MigrateReached(ls, fault) ==
    IF ~hasLegacyKeyStorage(ls) THEN "noLegacy"
    ELSE IF SaltThrows(ls, fault) THEN "derive"
    ELSE IF fault = "encrypt" THEN "encrypt"
    ELSE IF fault = "setItem" THEN "setItem"
    ELSE "done"

MigrateOutcome(ls, fault) == IF MigrateReached(ls, fault) = "done" THEN "true" ELSE "false"

\* a migration that would leave the imported legacy key as the master key
MigrateKeyStaysLegacy(ls, mk, password, s, fault) ==
    IF MigrateReached(ls, fault) = "noLegacy" THEN mk
    ELSE Some(importKeyFromBase64(Get(getItem(ls, KEY_STORAGE_KEY))))

MigrateKey(ls, mk, password, s, fault) ==
    IF MigrateReached(ls, fault) = "noLegacy" THEN mk
    ELSE IF MigrateReached(ls, fault) = "done"
         THEN Some(deriveKeyFromPassword(ls, password, s))
         ELSE Some(importKeyFromBase64(Get(getItem(ls, KEY_STORAGE_KEY))))

\* the store once the body has got as far as `point`:
\*   "derived"   the new key is derived (the salt is persisted)
\*   "verified"  the verification record is written
MigrateStorageUpTo(ls, password, s, n, point) ==
    IF point = "derived" THEN StorageAfterSalt(ls, s)
    ELSE setItem(StorageAfterSalt(ls, s), KEY_VERIFICATION_KEY,
                 JSON_stringify(encrypt(VerificationToken,
                                        deriveKeyFromPassword(ls, password, s), n)))

\* a migration that would remove the legacy key before the record is written
MigrateStorageRemovesFirst(ls, password, s, n, fault) ==
    IF MigrateReached(ls, fault) \in {"noLegacy", "derive"} THEN ls
    ELSE IF MigrateReached(ls, fault) \in {"encrypt", "setItem"}
         THEN removeItem(MigrateStorageUpTo(ls, password, s, n, "derived"), KEY_STORAGE_KEY)
         ELSE removeItem(MigrateStorageUpTo(ls, password, s, n, "verified"), KEY_STORAGE_KEY)

MigrateStorage(ls, password, s, n, fault) ==
    IF MigrateReached(ls, fault) \in {"noLegacy", "derive"} THEN ls
    ELSE IF MigrateReached(ls, fault) \in {"encrypt", "setItem"}
         THEN MigrateStorageUpTo(ls, password, s, n, "derived")
         ELSE removeItem(MigrateStorageUpTo(ls, password, s, n, "verified"), KEY_STORAGE_KEY)

\* the legacy state a migration must not lose: what the encrypted blob holds
\* under the legacy key at the moment of migration
LegacyData(ls) ==
    IF hasLegacyKeyStorage(ls) /\ getItem(ls, ENCRYPTED_STORAGE_KEY) /= Null
    THEN LET d == decrypt(JSON_parse(Get(getItem(ls, ENCRYPTED_STORAGE_KEY))).encrypted,
                          importKeyFromBase64(Get(getItem(ls, KEY_STORAGE_KEY))))
         IN  IF d = Null THEN Null ELSE Some(JSON_parse(Get(d)))
    ELSE Null

migrateFromLegacyKey(password, s, n, fault) ==
    /\ IF hasLegacyKeyStorage(localStorage)
       THEN InitCryptoEffect
       ELSE UNCHANGED <<isInitialized, preferredAlgorithm>>
    /\ masterKey' = MigrateKey(localStorage, masterKey, password, s, fault)
    /\ localStorage' = MigrateStorage(localStorage, password, s, n, fault)
    /\ last' = Outcome("migrateFromLegacyKey", Some(password),
                       MigrateOutcome(localStorage, fault), Null)
    /\ journey' = NoJourney
    /\ UNCHANGED <<hostAegis, appVars, history>>

----------------------------------------------------------------------------
(* Encrypted store (utils/storage.ts) *)

\* a load that would drop the stored language for the default
WithDefaultsLangLost(state) ==
    [lang |-> "no", notes |-> state.notes, tags |-> state.tags, folders |-> state.folders]

\* the lang || 'no', notes || [] ... defaults of the load paths
WithDefaults(state) ==
    [lang |-> IF state.lang = "" THEN "no" ELSE state.lang,
     notes |-> state.notes,
     tags |-> state.tags,
     folders |-> state.folders]

\* loadFromStorageEncrypted(): Some(state) or Null
loadFromStorageEncrypted(ls, mk) ==
    LET encrypted == getItem(ls, ENCRYPTED_STORAGE_KEY)
        legacy == getItem(ls, STORAGE_KEY)
        fallback == IF legacy /= Null THEN Some(WithDefaults(JSON_parse(Get(legacy)))) ELSE Null
    IN  IF encrypted /= Null /\ mk /= Null
        THEN LET decrypted == decrypt(JSON_parse(Get(encrypted)).encrypted, Get(mk))
             IN  IF decrypted = Null THEN Null
                 ELSE Some(WithDefaults(JSON_parse(Get(decrypted))))
        ELSE fallback

\* loadFromStorage(): the synchronous read of the plaintext slot
loadFromStorage(ls) ==
    IF getItem(ls, STORAGE_KEY) /= Null
    THEN Some(WithDefaults(JSON_parse(Get(getItem(ls, STORAGE_KEY)))))
    ELSE Null

\* a save that would remove the plaintext before it encrypts and writes
SaveStorageRemovesFirst(ls, key, state, n, fault) ==
    IF key = Null
    THEN (IF fault /= "none" THEN ls ELSE setItem(ls, STORAGE_KEY, JSON_stringify(state)))
    ELSE IF fault /= "none" THEN removeItem(ls, STORAGE_KEY)
    ELSE setItem(removeItem(ls, STORAGE_KEY), ENCRYPTED_STORAGE_KEY,
                 JSON_stringify([version |-> 1,
                                 encrypted |-> encrypt(JSON_stringify(state), Get(key), n)]))

\* saveToStorageEncrypted(state) with the key it read: the store it leaves
SaveStorage(ls, key, state, n, fault) ==
    IF fault /= "none" THEN ls
    ELSE IF key /= Null
         THEN removeItem(
                  setItem(ls, ENCRYPTED_STORAGE_KEY,
                          JSON_stringify([version |-> 1,
                                          encrypted |-> encrypt(JSON_stringify(state), Get(key), n)])),
                  STORAGE_KEY)
         ELSE setItem(ls, STORAGE_KEY, JSON_stringify(state))

\* a save without its try/catch: the failure would reach the caller
SavePathUncaught(key, fault) ==
    IF fault /= "none" THEN "throws"
    ELSE IF key /= Null THEN "encrypted" ELSE "plaintext"

\* which path the save took: "encrypted", "plaintext", or "failed" (caught)
SavePath(key, fault) ==
    IF fault /= "none" THEN "failed"
    ELSE IF key /= Null THEN "encrypted" ELSE "plaintext"

saveToStorageEncrypted(state, n, fault) ==
    /\ IF masterKey /= Null
       THEN InitCryptoEffect
       ELSE UNCHANGED <<isInitialized, preferredAlgorithm>>
    /\ localStorage' = SaveStorage(localStorage, masterKey, state, n, fault)
    /\ last' = Outcome("saveToStorageEncrypted", Some(state), SavePath(masterKey, fault), Null)
    /\ journey' = IF journey.stage \in {"setup", "saved"} /\ SavePath(masterKey, fault) = "encrypted"
                  THEN [journey EXCEPT !.stage = "saved", !.state = Some(state)]
                  ELSE NoJourney
    /\ UNCHANGED <<masterKey, hostAegis, appVars, history>>

LoadStep ==
    /\ IF getItem(localStorage, ENCRYPTED_STORAGE_KEY) /= Null /\ masterKey /= Null
       THEN InitCryptoEffect
       ELSE UNCHANGED <<isInitialized, preferredAlgorithm>>
    /\ last' = Outcome("loadFromStorageEncrypted", Null,
                       IF loadFromStorageEncrypted(localStorage, masterKey) = Null
                       THEN "null" ELSE "state",
                       loadFromStorageEncrypted(localStorage, masterKey))
    /\ UNCHANGED <<localStorage, masterKey, hostAegis, appVars, history, journey>>

----------------------------------------------------------------------------
(* Application shell (App.tsx, PasswordPrompt.tsx, AppContext.tsx) *)

PasswordLength(p) == IF p \in ShortPasswords THEN 5 ELSE 21

\* storage.ts export used by App.tsx: a password record or a legacy key is stored
needsPasswordUnlock(ls) == isPasswordEncryptionSetup(ls) \/ hasLegacyKeyStorage(ls)

\* App of the password release: the init effect, then the prompt or the provider
AppBoot ==
    /\ appPc = "boot"
    /\ release = "password"
    /\ InitCryptoEffect
    /\ appPc' = IF masterKey /= Null /\ ~needsPasswordUnlock(localStorage)
                THEN "unlocked" ELSE "prompt"
    /\ last' = Outcome("App.init", Null, "void", Null)
    /\ UNCHANGED <<localStorage, masterKey, hostAegis, release, initPc, appState,
                   pendingSaves, history, journey>>

\* App of the random-key release: the provider is rendered at once
AppBootLegacy ==
    /\ appPc = "boot"
    /\ release = "random-key"
    /\ appPc' = "unlocked"
    /\ last' = Outcome("App", Null, "void", Null)
    /\ UNCHANGED <<localStorage, cryptoVars, hostAegis, release, initPc, appState,
                   pendingSaves, history, journey>>

\* PasswordPrompt: const isNewUser, const needsMigration
isNewUser(ls) == ~isPasswordEncryptionSetup(ls) /\ ~hasLegacyKeyStorage(ls)
needsMigration(ls) == hasLegacyKeyStorage(ls)

\* handleSubmit: the two early returns (too short, confirmation mismatch)
SubmitRejected(password, confirmPassword) ==
    /\ appPc = "prompt"
    /\ \/ PasswordLength(password) < 8
       \/ /\ isNewUser(localStorage) \/ needsMigration(localStorage)
          /\ password /= confirmPassword
    /\ last' = Outcome("handleSubmit", Some(password),
                       IF PasswordLength(password) < 8 THEN "tooShort" ELSE "mismatch", Null)
    /\ UNCHANGED <<localStorage, cryptoVars, hostAegis, appVars, history, journey>>

\* handleSubmit: the migration branch
SubmitMigrate(password, s, n, fault) ==
    /\ appPc = "prompt"
    /\ PasswordLength(password) >= 8
    /\ needsMigration(localStorage)
    /\ InitCryptoEffect
    /\ masterKey' = MigrateKey(localStorage, masterKey, password, s, fault)
    /\ localStorage' = MigrateStorage(localStorage, password, s, n, fault)
    /\ appPc' = IF MigrateOutcome(localStorage, fault) = "true" THEN "unlocked" ELSE "prompt"
    /\ last' = Outcome("handleSubmit.migrate", Some(password),
                       IF MigrateOutcome(localStorage, fault) = "true" THEN "unlocked" ELSE "error",
                       Null)
    /\ kept' = IF MigrateOutcome(localStorage, fault) = "true" THEN LegacyData(localStorage) ELSE kept
    /\ interrupted' = IF MigrateReached(localStorage, fault) \in {"encrypt", "setItem"}
                      THEN <<password, "pending">>
                      ELSE IF MigrateReached(localStorage, fault) /= "done" THEN interrupted
                      ELSE IF interrupted = <<password, "pending">>
                           THEN <<password, "retried">> ELSE Null
    /\ UNCHANGED <<hostAegis, release, initPc, appState, pendingSaves, unreadable, journey>>

\* handleSubmit: the migration branch, the page being closed while it runs
MigrationInterrupted(password, s, n, point) ==
    /\ appPc = "prompt"
    /\ PasswordLength(password) >= 8
    /\ needsMigration(localStorage)
    /\ localStorage' = MigrateStorageUpTo(localStorage, password, s, n, point)
    /\ masterKey' = Null
    /\ isInitialized' = FALSE
    /\ preferredAlgorithm' = "xchacha20"
    /\ appPc' = "boot"
    /\ last' = Outcome("handleSubmit.migrate", Some(password), "interrupted", Null)
    /\ interrupted' = <<password, "pending">>
    /\ UNCHANGED <<hostAegis, release, initPc, appState, pendingSaves, kept, unreadable, journey>>

\* handleSubmit: the new-user branch
SubmitSetup(password, s, n, fault) ==
    /\ appPc = "prompt"
    /\ PasswordLength(password) >= 8
    /\ isNewUser(localStorage)
    /\ InitCryptoEffect
    /\ masterKey' = SetupKey(localStorage, masterKey, password, s, fault)
    /\ localStorage' = SetupStorage(localStorage, password, s, n, fault)
    /\ appPc' = IF SetupThrows(localStorage, fault) THEN "prompt" ELSE "unlocked"
    /\ last' = Outcome("handleSubmit.setup", Some(password),
                       IF SetupThrows(localStorage, fault) THEN "error" ELSE "unlocked", Null)
    /\ UNCHANGED <<hostAegis, release, initPc, appState, pendingSaves, history, journey>>

\* handleSubmit: the verify-existing-password branch
SubmitUnlock(password, s, n, fault) ==
    /\ appPc = "prompt"
    /\ PasswordLength(password) >= 8
    /\ ~isNewUser(localStorage) /\ ~needsMigration(localStorage)
    /\ InitCryptoEffect
    /\ masterKey' = UnlockKey(localStorage, masterKey, password, s, fault)
    /\ localStorage' = UnlockStorage(localStorage, password, s, n, fault)
    /\ appPc' = IF UnlockOutcome(localStorage, password, s, fault) = "true"
                THEN "unlocked" ELSE "prompt"
    /\ last' = Outcome("handleSubmit.unlock", Some(password),
                       IF UnlockOutcome(localStorage, password, s, fault) = "true"
                       THEN "unlocked" ELSE "error", Null)
    /\ UNCHANGED <<hostAegis, release, initPc, appState, pendingSaves, history, journey>>

\* saveToStorage(state) as the persistence effect calls it: without a key the
\* plaintext is written at once, with one the write waits for encrypt
EffectStorage(ls, mk, state) ==
    IF mk = Null THEN SaveStorage(ls, Null, state, "nonce-1", "none") ELSE ls

EffectPending(queue, mk, state) ==
    IF mk = Null THEN queue ELSE Append(queue, [state |-> state, key |-> Get(mk)])

\* AppProvider mounts: useReducer(initialState), then both effects run
MountProvider ==
    /\ appPc = "unlocked"
    /\ appPc' = "app"
    /\ appState' = initialState
    /\ initPc' = "initEnc"
    /\ localStorage' = EffectStorage(localStorage, masterKey, initialState)
    /\ pendingSaves' = EffectPending(<<>>, masterKey, initialState)
    /\ last' = Outcome("AppProvider", Null, "void", Null)
    /\ UNCHANGED <<cryptoVars, hostAegis, release, history, journey>>

\* initializeEncryption as utils/storage exports it in the password release:
\* the key comes from the prompt, so start-up only fixes the algorithm and
\* leaves the key in memory as it is
StorageInitKey(mk) == mk

\* initApp: await initializeEncryption()
InitAppEncryption(newKey, fault) ==
    /\ initPc = "initEnc"
    /\ InitCryptoEffect
    /\ IF release = "random-key"
       THEN /\ masterKey' = InitEncKey(localStorage, newKey)
            /\ localStorage' = InitEncStorage(localStorage, newKey, fault)
            /\ initPc' = IF InitEncThrows(localStorage, fault) THEN "done" ELSE "load"
            /\ last' = Outcome("initApp.initializeEncryption", Null,
                               IF InitEncThrows(localStorage, fault) THEN "throws" ELSE "void",
                               Null)
       ELSE /\ fault = "none"
            /\ masterKey' = StorageInitKey(masterKey)
            /\ UNCHANGED localStorage
            /\ initPc' = "load"
            /\ last' = Outcome("initApp.initializeEncryption", Null, "void", Null)
    /\ UNCHANGED <<hostAegis, release, appPc, appState, pendingSaves, history, journey>>

\* the keys crypto_secretbox_keygen may return to initApp
InitAppKeyChoices == IF release = "random-key" THEN KeyChoices ELSE {RandomKey("key-1")}

\* initApp: what it dispatches, Null when it dispatches nothing
InitAppLoaded(ls, mk) ==
    IF loadFromStorageEncrypted(ls, mk) /= Null
    THEN loadFromStorageEncrypted(ls, mk)
    ELSE loadFromStorage(ls)

\* the stored blob is there, a key is set, and the blob does not open under it
Unreadable(ls, mk) ==
    /\ getItem(ls, ENCRYPTED_STORAGE_KEY) /= Null
    /\ mk /= Null
    /\ decrypt(JSON_parse(Get(getItem(ls, ENCRYPTED_STORAGE_KEY))).encrypted, Get(mk)) = Null

\* initApp: the load, its dispatches, and the persistence effect they trigger
InitAppLoad ==
    /\ initPc = "load"
    /\ initPc' = "done"
    /\ IF getItem(localStorage, ENCRYPTED_STORAGE_KEY) /= Null /\ masterKey /= Null
       THEN InitCryptoEffect
       ELSE UNCHANGED <<isInitialized, preferredAlgorithm>>
    /\ LET loaded == InitAppLoaded(localStorage, masterKey)
       IN  /\ IF loaded /= Null
              THEN /\ Len(pendingSaves) < MaxPending
                   /\ appState' = Get(loaded)
                   /\ localStorage' = EffectStorage(localStorage, masterKey, Get(loaded))
                   /\ pendingSaves' = EffectPending(pendingSaves, masterKey, Get(loaded))
              ELSE UNCHANGED <<appState, localStorage, pendingSaves>>
           /\ last' = Outcome("initApp", Null, IF loaded = Null THEN "null" ELSE "state", loaded)
    /\ unreadable' = IF Unreadable(localStorage, masterKey)
                     THEN getItem(localStorage, ENCRYPTED_STORAGE_KEY)
                     ELSE IF loadFromStorageEncrypted(localStorage, masterKey) /= Null
                          THEN Null ELSE unreadable
    /\ UNCHANGED <<masterKey, hostAegis, release, appPc, kept, interrupted, journey>>

\* the write of a save whose encrypt has finished; the save issued at mount
\* gets there after initApp has read the store
CompleteSave(n, fault) ==
    /\ pendingSaves /= <<>>
    /\ initPc = "done"
    /\ InitCryptoEffect
    /\ localStorage' = SaveStorage(localStorage, Some(Head(pendingSaves).key),
                                   Head(pendingSaves).state, n, fault)
    /\ pendingSaves' = Tail(pendingSaves)
    /\ last' = Outcome("saveToStorage", Some(Head(pendingSaves).state),
                       SavePath(Some(Head(pendingSaves).key), fault), Null)
    /\ UNCHANGED <<masterKey, hostAegis, release, appPc, initPc, appState, history, journey>>

\* a committed user mutation (any reducer action that changes a persisted
\* field), and the persistence effect it triggers
UserEdit(state) ==
    /\ appPc = "app"
    /\ initPc = "done"
    /\ state /= appState
    /\ Len(pendingSaves) < MaxPending
    /\ appState' = state
    /\ localStorage' = EffectStorage(localStorage, masterKey, state)
    /\ pendingSaves' = EffectPending(pendingSaves, masterKey, state)
    /\ last' = Outcome("dispatch", Some(state), "void", Null)
    /\ kept' = Null
    /\ unreadable' = Null
    /\ UNCHANGED <<cryptoVars, hostAegis, release, appPc, initPc, interrupted, journey>>

----------------------------------------------------------------------------
(* Process lifetime *)

\* the page is closed and opened again: module state is lost, the store is kept
Restart ==
    /\ masterKey' = Null
    /\ isInitialized' = FALSE
    /\ preferredAlgorithm' = "xchacha20"
    /\ appPc' = "boot"
    /\ initPc' = "idle"
    /\ appState' = initialState
    /\ pendingSaves' = <<>>
    /\ last' = Outcome("restart", Null, "void", Null)
    /\ journey' = IF journey.stage \in {"saved", "restarted", "unlocked"}
                  THEN [journey EXCEPT !.stage = "restarted"]
                  ELSE NoJourney
    /\ UNCHANGED <<localStorage, hostAegis, release, history>>

\* the password release is deployed: the next page load runs it
Upgrade ==
    /\ release = "random-key"
    /\ release' = "password"
    /\ masterKey' = Null
    /\ isInitialized' = FALSE
    /\ preferredAlgorithm' = "xchacha20"
    /\ appPc' = "boot"
    /\ initPc' = "idle"
    /\ appState' = initialState
    /\ pendingSaves' = <<>>
    /\ last' = Outcome("upgrade", Null, "void", Null)
    /\ UNCHANGED <<localStorage, hostAegis, history, journey>>

----------------------------------------------------------------------------
(* initCrypto and encrypt, await by await *)

\* the callers that may have a call of crypto.ts suspended at the same time
Callers == {"a", "b", "c"}
Plaintexts == {"text-1", "text-2"}

NoCall == [fn |-> "none", pc |-> "idle"]

\* initCrypto() is called: it returns at once when isInitialized, and
\* otherwise suspends at `await sodium.ready` with the guard behind it
CallInitCrypto(c) ==
    /\ calls[c] = NoCall
    /\ calls' = IF isInitialized THEN calls
                ELSE [calls EXCEPT ![c] = [fn |-> "initCrypto", pc |-> "ready"]]
    /\ last' = Outcome("initCrypto", Null, IF isInitialized THEN "returned" ELSE "suspended", Null)
    /\ UNCHANGED <<localStorage, masterKey, isInitialized, preferredAlgorithm, hostAegis,
                   appVars, history, journey, drawn, chosen, uiState, importPc,
                   location, tree, hook>>

\* encrypt(plaintext, key) is called: it awaits initCrypto() first
CallEncrypt(c) ==
    /\ calls[c] = NoCall
    /\ calls' = [calls EXCEPT ![c] = [fn |-> "encrypt",
                                      pc |-> IF isInitialized THEN "body" ELSE "ready"]]
    /\ last' = Outcome("encrypt", Null, "suspended", Null)
    /\ UNCHANGED <<localStorage, masterKey, isInitialized, preferredAlgorithm, hostAegis,
                   appVars, history, journey, drawn, chosen, uiState, importPc,
                   location, tree, hook>>

\* sodium.ready resolves for a suspended initCrypto: it probes and sets the flag
SodiumReady(c) ==
    /\ calls[c].pc = "ready"
    /\ preferredAlgorithm' = DetectAlgorithm
    /\ isInitialized' = TRUE
    /\ chosen' = IF chosen = Null THEN Some(DetectAlgorithm) ELSE chosen
    /\ calls' = [calls EXCEPT ![c] = IF calls[c].fn = "encrypt"
                                     THEN [fn |-> "encrypt", pc |-> "body"]
                                     ELSE NoCall]
    /\ last' = Outcome("initCrypto", Null, IF isInitialized THEN "reprobed" ELSE "probed", Null)
    /\ UNCHANGED <<localStorage, masterKey, hostAegis, appVars, history, journey, drawn,
                   uiState, importPc, location, tree, hook>>

\* encrypt resumes after its await and returns the blob
EncryptBody(c, plaintext, key, n) ==
    /\ calls[c] = [fn |-> "encrypt", pc |-> "body"]
    /\ calls' = [calls EXCEPT ![c] = NoCall]
    /\ last' = Outcome("encrypt", Some(plaintext), "blob", Some(encrypt(plaintext, key, n)))
    /\ UNCHANGED <<localStorage, masterKey, isInitialized, preferredAlgorithm, hostAegis,
                   appVars, history, journey, drawn, chosen, uiState, importPc,
                   location, tree, hook>>

\* the page is reloaded: the module state is fresh and no call survives
RestartCalls ==
    /\ Restart
    /\ calls' = [c \in Callers |-> NoCall]
    /\ chosen' = Null
    /\ UNCHANGED <<drawn, uiState, importPc, location, tree, hook>>

----------------------------------------------------------------------------
(* Import of a backup file *)

MAX_NOTES == 10000
MAX_TAGS == 1000
MAX_FOLDERS == 1000
MAX_NOTE_CONTENT_LENGTH == 1000000
MAX_TITLE_LENGTH == 500
MAX_TAG_NAME_LENGTH == 100
MAX_FOLDER_NAME_LENGTH == 200
MAX_IMPORT_FILE_SIZE == 50 * 1024 * 1024

\* A JavaScript value is a record tagged with its kind.  A string is known
\* by its length; an array is a sequence of runs, a run being n equal items.
Str(length) == [t |-> "string", length |-> length]
Num == [t |-> "number"]
Undefined == [t |-> "undefined"]
JsNull == [t |-> "null"]
Arr(runs) == [t |-> "array", runs |-> runs]
Run(n, item) == [n |-> n, item |-> item]

typeof(v) == IF v.t \in {"array", "null"} THEN "object" ELSE v.t
Falsy(v) == v.t \in {"null", "undefined"} \/ (v.t = "string" /\ v.length = 0)

RECURSIVE SumRuns(_)
SumRuns(runs) == IF runs = <<>> THEN 0 ELSE Head(runs).n + SumRuns(Tail(runs))

\* Array.prototype.length
ArrayLength(a) == SumRuns(a.runs)

\* the items a for...of over the array visits
ItemsOf(a) == {a.runs[i].item : i \in {j \in 1..Len(a.runs) : a.runs[j].n > 0}}

\* a ceiling test that would turn away the ceiling itself
AtOrOver(n, max) == n >= max

\* `n > MAX`
Over(n, max) == n > max

NoteValid(note) ==
    IF Falsy(note) \/ typeof(note) /= "object" \/ note.t /= "object" THEN FALSE
    ELSE /\ typeof(note.id) = "string"
         /\ typeof(note.title) = "string"
         /\ typeof(note.content) = "string"
         /\ ~Over(note.title.length, MAX_TITLE_LENGTH)
         /\ ~Over(note.content.length, MAX_NOTE_CONTENT_LENGTH)

TagValid(tag) ==
    IF Falsy(tag) \/ typeof(tag) /= "object" \/ tag.t /= "object" THEN FALSE
    ELSE /\ typeof(tag.id) = "string"
         /\ typeof(tag.name) = "string"
         /\ ~Over(tag.name.length, MAX_TAG_NAME_LENGTH)

FolderValid(folder) ==
    IF Falsy(folder) \/ typeof(folder) /= "object" \/ folder.t /= "object" THEN FALSE
    ELSE /\ typeof(folder.id) = "string"
         /\ typeof(folder.name) = "string"
         /\ ~Over(folder.name.length, MAX_FOLDER_NAME_LENGTH)

validateImportData(data) ==
    IF Falsy(data) \/ typeof(data) /= "object" \/ data.t /= "object" THEN FALSE
    ELSE IF typeof(data.version) /= "string" THEN FALSE
    ELSE IF typeof(data.exportedAt) /= "number" THEN FALSE
    ELSE IF data.notes.t /= "array" THEN FALSE
    ELSE IF data.tags.t /= "array" THEN FALSE
    ELSE IF data.folders.t /= "array" THEN FALSE
    ELSE IF Over(ArrayLength(data.notes), MAX_NOTES) THEN FALSE
    ELSE IF Over(ArrayLength(data.tags), MAX_TAGS) THEN FALSE
    ELSE IF Over(ArrayLength(data.folders), MAX_FOLDERS) THEN FALSE
    ELSE /\ \A note \in ItemsOf(data.notes) : NoteValid(note)
         /\ \A tag \in ItemsOf(data.tags) : TagValid(tag)
         /\ \A folder \in ItemsOf(data.folders) : FolderValid(folder)

\* importFromJsonFile once the input has changed: Some(data) or Null.
\* file is Null when no file was chosen; file.json is Null when
\* JSON.parse throws on the file's text
importFromJsonFile(file) ==
    IF file = Null THEN Null
    ELSE IF Get(file).size > MAX_IMPORT_FILE_SIZE THEN Null
    ELSE IF Get(file).json = Null THEN Null
    ELSE IF validateImportData(Get(Get(file).json)) THEN Get(file).json
    ELSE Null

\* the backup files offered to the import: every count and length at its
\* ceiling or one above it
ANote(titleLength, contentLength) ==
    [t |-> "object", id |-> Str(8), title |-> Str(titleLength), content |-> Str(contentLength)]
ATag(nameLength) == [t |-> "object", id |-> Str(8), name |-> Str(nameLength)]
AFolder(nameLength) == [t |-> "object", id |-> Str(8), name |-> Str(nameLength)]

\* count notes: one with the given title and body, the rest with that title and a short body
NotesArray(count, titleLength, contentLength) ==
    Arr(<<Run(1, ANote(titleLength, contentLength)), Run(count - 1, ANote(titleLength, 1))>>)
TagsArray(count, nameLength) == Arr(<<Run(count, ATag(nameLength))>>)
FoldersArray(count, nameLength) == Arr(<<Run(count, AFolder(nameLength))>>)

ExportData(notes, tags, folders) ==
    [t |-> "object", version |-> Str(5), exportedAt |-> Num,
     notes |-> notes, tags |-> tags, folders |-> folders]

AtAndAbove(max) == {max, max + 1}

WellShapedData ==
    {ExportData(NotesArray(nc, tl, cl), TagsArray(tc, tn), FoldersArray(fc, fn)) :
        nc \in AtAndAbove(MAX_NOTES) \cup {1}, tl \in AtAndAbove(MAX_TITLE_LENGTH),
        cl \in AtAndAbove(MAX_NOTE_CONTENT_LENGTH),
        tc \in AtAndAbove(MAX_TAGS), tn \in AtAndAbove(MAX_TAG_NAME_LENGTH),
        fc \in AtAndAbove(MAX_FOLDERS), fn \in AtAndAbove(MAX_FOLDER_NAME_LENGTH)}

IllShapedData ==
    {JsNull,
     [ExportData(Arr(<<>>), Arr(<<>>), Arr(<<>>)) EXCEPT !.version = Undefined],
     [ExportData(Arr(<<>>), Arr(<<>>), Arr(<<>>)) EXCEPT !.exportedAt = Str(10)],
     ExportData(Arr(<<>>), Undefined, Arr(<<>>)),
     ExportData(Arr(<<Run(1, Num)>>), Arr(<<>>), Arr(<<>>)),
     ExportData(Arr(<<Run(1, [ANote(1, 1) EXCEPT !.title = Undefined])>>), Arr(<<>>), Arr(<<>>)),
     ExportData(Arr(<<>>), Arr(<<Run(1, [ATag(1) EXCEPT !.name = Num])>>), Arr(<<>>))}

ImportFiles ==
    {Null}
    \cup {Some([size |-> sz, json |-> Null]) : sz \in AtAndAbove(MAX_IMPORT_FILE_SIZE)}
    \cup {Some([size |-> sz, json |-> Some(d)]) :
             sz \in AtAndAbove(MAX_IMPORT_FILE_SIZE), d \in WellShapedData \cup IllShapedData}

\* a reducer that would take the notes of the payload and leave the rest
ReduceImportNotesOnly(state, payload) == [state EXCEPT !.notes = payload.notes]

\* reducer, case IMPORT_DATA
ReduceImportData(state, payload) ==
    [state EXCEPT !.notes = payload.notes, !.tags = payload.tags, !.folders = payload.folders]

\* importData is called and waits for the file input
CallImportData ==
    /\ importPc = "idle"
    /\ importPc' = "picking"
    /\ last' = Outcome("importData", Null, "suspended", Null)
    /\ UNCHANGED <<localStorage, cryptoVars, hostAegis, appVars, history, journey, drawn,
                   calls, chosen, uiState, location, tree, hook>>

\* the input changes: importFromJsonFile resolves and importData goes on
FileChosen(file) ==
    /\ importPc = "picking"
    /\ importPc' = "idle"
    /\ uiState' = IF importFromJsonFile(file) = Null THEN uiState
                  ELSE ReduceImportData(uiState, Get(importFromJsonFile(file)))
    /\ last' = Outcome("importData", file,
                       IF importFromJsonFile(file) = Null THEN "false" ELSE "true", Null)
    /\ UNCHANGED <<localStorage, cryptoVars, hostAegis, appVars, history, journey, drawn,
                   calls, chosen, location, tree, hook>>

\* reducer, cases SET_LANG and SELECT_NOTE, dispatched by the user
SetLang(lang) ==
    /\ uiState' = [uiState EXCEPT !.lang = lang]
    /\ last' = Outcome("dispatch", Null, "SET_LANG", Null)
    /\ UNCHANGED <<localStorage, cryptoVars, hostAegis, appVars, history, journey, drawn,
                   calls, chosen, importPc, location, tree, hook>>

SelectNote(id) ==
    /\ uiState' = [uiState EXCEPT !.selectedNoteId = id]
    /\ last' = Outcome("dispatch", Null, "SELECT_NOTE", Null)
    /\ UNCHANGED <<localStorage, cryptoVars, hostAegis, appVars, history, journey, drawn,
                   calls, chosen, importPc, location, tree, hook>>

----------------------------------------------------------------------------
(* The key in the URL fragment *)

\* A fragment is known by what extractKeyFromUrl looks at: whether it
\* contains 'key=', and the run of base64url characters that follows the
\* first 'key=' (<<>> when no such character follows).
NoHash == [hasKeyEq |-> FALSE, run |-> Null]

\* generateShareableUrl(noteId, key): ?note=<noteId>#key=<base64 of the key>
generateShareableUrl(noteId, key) ==
    [search |-> Some(noteId), hash |-> [hasKeyEq |-> TRUE, run |-> Some(exportKeyToBase64(key))]]

\* base64url characters that sodium.from_base64 cannot decode
UndecodableRun == <<"b64-incomplete", "A">>

\* the notes a link may point at
NoteIds == {"n1", "n2", "n3"}

\* the fragments a link may carry
Hashes ==
    {NoHash,
     [hasKeyEq |-> TRUE, run |-> Null],
     [hasKeyEq |-> TRUE, run |-> Some(UndecodableRun)]}
    \cup {generateShareableUrl("n1", key).hash : key \in AllKeys}

\* hash.match(/key=([A-Za-z0-9_-]+)/)
keyMatch(hash) == IF hash.hasKeyEq THEN hash.run ELSE Null

FromBase64Throws(text) == text[1] /= "b64"

\* the key extractKeyFromUrl returns, Null for null
ExtractedKey(loc) ==
    IF ~loc.hash.hasKeyEq THEN Null
    ELSE IF keyMatch(loc.hash) = Null THEN Null
    ELSE IF FromBase64Throws(Get(keyMatch(loc.hash))) THEN Null
    ELSE Some(importKeyFromBase64(Get(keyMatch(loc.hash))))

\* the URL extractKeyFromUrl leaves: replaceState(pathname + search) is
\* reached only after the key was imported
LocationAfterExtract(loc) ==
    IF ExtractedKey(loc) = Null THEN loc ELSE [loc EXCEPT !.hash = NoHash]

extractKeyFromUrl ==
    /\ location' = LocationAfterExtract(location)
    /\ last' = Outcome("extractKeyFromUrl", Some(location),
                       IF ExtractedKey(location) = Null THEN "null" ELSE "key",
                       ExtractedKey(location))
    /\ UNCHANGED <<localStorage, cryptoVars, hostAegis, appVars, history, journey, drawn,
                   calls, chosen, uiState, importPc, tree, hook>>

\* the browser opens a link to the application
OpenLink(search, hash) ==
    /\ location' = [search |-> search, hash |-> hash]
    /\ last' = Outcome("navigate", Null, "void", Null)
    /\ UNCHANGED <<localStorage, cryptoVars, hostAegis, appVars, history, journey, drawn,
                   calls, chosen, uiState, importPc, tree, hook>>

----------------------------------------------------------------------------
(* The folder tree *)

FolderIds == {"f1", "f2", "f3"}
TreeNoteIds == {"n1", "n2"}
\* parentId: null or the id of a folder
ParentIds == {Null} \cup {Some(id) : id \in FolderIds}

IdsOf(items) == {items[i].id : i \in 1..Len(items)}

\* a delete that would remove the folder and its notes and stop there
deleteFolderOnly(folderId, folders, notes) ==
    [folders |-> SelectSeq(folders, LAMBDA f : f.id /= folderId),
     notes |-> SelectSeq(notes, LAMBDA n : n.parentId /= Some(folderId)),
     steps |-> 1]

\* reducer, case DELETE_FOLDER: deleteRecursive(folderId, folders, notes);
\* SelectSeq is Array.prototype.filter.
\* steps counts the calls of deleteRecursive that were made.
RECURSIVE deleteRecursive(_, _, _), DeleteChildren(_, _)
deleteRecursive(folderId, folders, notes) ==
    LET childFolders == SelectSeq(folders, LAMBDA f : f.parentId = Some(folderId))
        result == [folders |-> SelectSeq(folders, LAMBDA f : f.id /= folderId),
                   notes |-> SelectSeq(notes, LAMBDA n : n.parentId /= Some(folderId)),
                   steps |-> 1]
    IN  DeleteChildren(childFolders, result)

\* for (const child of childFolders) result = deleteRecursive(child.id, ...)
DeleteChildren(childFolders, result) ==
    IF childFolders = <<>> THEN result
    ELSE LET sub == deleteRecursive(Head(childFolders).id, result.folders, result.notes)
         IN  DeleteChildren(Tail(childFolders),
                            [sub EXCEPT !.steps = result.steps + sub.steps])

\* the ids of the folder and of every folder below it by parentId links
RECURSIVE Subtree(_, _)
Subtree(ids, folders) ==
    LET more == ids \cup {folders[i].id : i \in {j \in 1..Len(folders) :
                              folders[j].parentId /= Null /\ Get(folders[j].parentId) \in ids}}
    IN  IF more = ids THEN ids ELSE Subtree(more, folders)

\* the folder lies below itself
InCycle(folderId, folders) ==
    \E i \in 1..Len(folders) :
        /\ folders[i].id = folderId
        /\ folders[i].parentId /= Null
        /\ Get(folders[i].parentId) \in Subtree({folderId}, folders)

TreeUnchanged ==
    UNCHANGED <<localStorage, cryptoVars, hostAegis, appVars, history, journey, drawn,
                calls, chosen, uiState, importPc, location, hook>>

\* reducer, case ADD_FOLDER (the id is fresh: generateId)
AddFolder(id, parentId) ==
    /\ id \notin IdsOf(tree.folders)
    /\ tree' = [tree EXCEPT !.folders = Append(@, [id |-> id, parentId |-> parentId])]
    /\ last' = Outcome("ADD_FOLDER", Some(id), "void", Null)
    /\ TreeUnchanged

\* reducer, case UPDATE_FOLDER with updates = {parentId}
MoveFolder(id, parentId) ==
    /\ id \in IdsOf(tree.folders)
    /\ tree' = [tree EXCEPT !.folders =
                   [i \in 1..Len(@) |-> IF @[i].id = id THEN [@[i] EXCEPT !.parentId = parentId]
                                        ELSE @[i]]]
    /\ tree' /= tree
    /\ last' = Outcome("UPDATE_FOLDER", Some(id), "void", Null)
    /\ TreeUnchanged

\* reducer, case ADD_NOTE
AddNote(id, parentId) ==
    /\ id \notin IdsOf(tree.notes)
    /\ tree' = [tree EXCEPT !.notes = Append(@, [id |-> id, parentId |-> parentId])]
    /\ last' = Outcome("ADD_NOTE", Some(id), "void", Null)
    /\ TreeUnchanged

\* reducer, case DELETE_FOLDER
DeleteFolder(id) ==
    /\ tree' = [folders |-> deleteRecursive(id, tree.folders, tree.notes).folders,
                notes |-> deleteRecursive(id, tree.folders, tree.notes).notes]
    /\ last' = Outcome("DELETE_FOLDER", Some(id), "void",
                       Some([steps |-> deleteRecursive(id, tree.folders, tree.notes).steps,
                             cyclic |-> InCycle(id, tree.folders),
                             removed |-> IdsOf(tree.folders) \ IdsOf(tree'.folders)]))
    /\ TreeUnchanged

----------------------------------------------------------------------------
(* The undo history *)

MAX_HISTORY == 100
\* calls the handlers may make through the closures of one render
MaxStale == 2

\* an UndoRedoState; the editor's texts are not told apart
Entry == [content |-> "text", cursorPosition |-> 0]
Hole == [content |-> "", cursorPosition |-> 0]

Min(a, b) == IF a < b THEN a ELSE b

\* newHistory[index] = entry on a copy (an index past the end leaves holes)
AssignAt(prev, index, entry) ==
    [i \in 1..(IF index + 1 > Len(prev) THEN index + 1 ELSE Len(prev)) |->
        IF i = index + 1 THEN entry ELSE IF i <= Len(prev) THEN prev[i] ELSE Hole]

\* the updater of the appending pushState, applied to the latest history;
\* currentIndex is the one the closure captured
PushHistory(prev, currentIndex, entry) ==
    LET newHistory == Append(SubSeq(prev, 1, Min(currentIndex + 1, Len(prev))), entry)
    IN  IF Len(newHistory) > MAX_HISTORY THEN Tail(newHistory) ELSE newHistory

HookUnchanged ==
    UNCHANGED <<localStorage, cryptoVars, hostAegis, appVars, history, journey, drawn,
                calls, chosen, uiState, importPc, location, tree>>

\* a handler may call: the hook is followed until its index has left the
\* history, and for MaxStale calls after a render
InRange == hook.currentIndex < Len(hook.history)
CanCall == InRange /\ hook.stale < MaxStale

\* pushState(content, cursorPosition); elapsed tells whether 300 ms have
\* passed since lastPushTime.current
pushState(elapsed) ==
    /\ CanCall
    /\ IF hook.lastPushTime /= 0 /\ elapsed = "short"
       THEN /\ hook' = [hook EXCEPT !.history = AssignAt(@, hook.rendered.currentIndex, Entry),
                                    !.stale = @ + 1]
            /\ last' = Outcome("pushState", Null, "updated", Null)
       ELSE /\ hook' = [hook EXCEPT !.lastPushTime = 1,
                                    !.history = PushHistory(@, hook.rendered.currentIndex, Entry),
                                    !.currentIndex = Min(@ + 1, MAX_HISTORY - 1),
                                    !.stale = @ + 1]
            /\ last' = Outcome("pushState", Null, "appended", Null)
    /\ HookUnchanged

undo ==
    /\ CanCall
    /\ IF hook.rendered.currentIndex > 0
       THEN /\ hook' = [hook EXCEPT !.currentIndex = hook.rendered.currentIndex - 1,
                                    !.stale = @ + 1]
            /\ last' = Outcome("undo", Null, "state", Null)
       ELSE /\ hook' = [hook EXCEPT !.stale = @ + 1]
            /\ last' = Outcome("undo", Null, "null", Null)
    /\ HookUnchanged

redo ==
    /\ CanCall
    /\ IF hook.rendered.currentIndex < hook.rendered.length - 1
       THEN /\ hook' = [hook EXCEPT !.currentIndex = hook.rendered.currentIndex + 1,
                                    !.stale = @ + 1]
            /\ last' = Outcome("redo", Null, "state", Null)
       ELSE /\ hook' = [hook EXCEPT !.stale = @ + 1]
            /\ last' = Outcome("redo", Null, "null", Null)
    /\ HookUnchanged

reset ==
    /\ CanCall
    /\ hook' = [hook EXCEPT !.history = <<Entry>>, !.currentIndex = 0, !.lastPushTime = 0,
                            !.stale = @ + 1]
    /\ last' = Outcome("reset", Null, "void", Null)
    /\ HookUnchanged

\* the component renders: the callbacks are made anew over the latest state
Render ==
    /\ InRange
    /\ hook.stale > 0
    /\ hook' = [hook EXCEPT !.rendered = [currentIndex |-> hook.currentIndex,
                                          length |-> Len(hook.history)],
                            !.stale = 0]
    /\ last' = Outcome("render", Null, "void", Null)
    /\ HookUnchanged

initialUiState ==
    [lang |-> "no", notes |-> Arr(<<>>), tags |-> Arr(<<>>), folders |-> Arr(<<>>),
     selectedNoteId |-> Null]

InitSide ==
    /\ calls = [c \in Callers |-> NoCall]
    /\ chosen = Null
    /\ uiState = initialUiState
    /\ importPc = "idle"
    /\ location = [search |-> Null, hash |-> NoHash]
    /\ tree = [folders |-> <<>>, notes |-> <<>>]
    /\ hook = [history |-> <<Entry>>, currentIndex |-> 0, lastPushTime |-> 0,
               rendered |-> [currentIndex |-> 0, length |-> 1], stale |-> 0]

InitMemory ==
    /\ masterKey = Null
    /\ isInitialized = FALSE
    /\ preferredAlgorithm = "xchacha20"
    /\ hostAegis \in BOOLEAN
    /\ appPc = "boot"
    /\ initPc = "idle"
    /\ appState = initialState
    /\ pendingSaves = <<>>
    /\ last = Outcome("start", Null, "void", Null)
    /\ kept = Null
    /\ unreadable = Null
    /\ interrupted = Null
    /\ journey = NoJourney
    /\ drawn = {}
    /\ InitSide

InitFresh == localStorage = EmptyStorage /\ InitMemory

Init == InitFresh /\ release = "password"

\* what randombytes_buf(crypto_pwhash_SALTBYTES) may return: the first
\* salt of the device, later a salt that differs from the stored one
SaltChoices ==
    IF getItem(localStorage, SALT_STORAGE_KEY) = Null THEN {"salt-1"}
    ELSE Salts \ {from_base64(Get(getItem(localStorage, SALT_STORAGE_KEY)))}

\* the faults that can strike where the operation stands: one that throws
\* in a call the operation does not make is no fault of it
FaultsOfUnlock == IF isPasswordEncryptionSetup(localStorage) THEN {"none"} ELSE Faults
FaultsOfMigrate == IF hasLegacyKeyStorage(localStorage) THEN Faults ELSE {"none"}
FaultsOfSave == IF masterKey = Null THEN {"none", "setItem"} ELSE Faults

Next ==
    \/ initCrypto
    \/ \E k \in KeyChoices, f \in {"none", "setItem"} : initializeEncryption(k, f)
    \/ clearMasterKey
    \/ \E p \in Passwords, s \in SaltChoices, n \in Nonces, f \in Faults :
           setupPasswordEncryption(p, s, n, f)
    \/ \E p \in Passwords, s \in SaltChoices, n \in Nonces, f \in FaultsOfUnlock :
           unlockWithPassword(p, s, n, f)
    \/ \E p \in Passwords, s \in SaltChoices, n \in Nonces, f \in FaultsOfMigrate :
           migrateFromLegacyKey(p, s, n, f)
    \/ \E st \in StoredStates, n \in Nonces, f \in FaultsOfSave : saveToStorageEncrypted(st, n, f)
    \/ LoadStep
    \/ Restart

Spec == Init /\ [][Next /\ UNCHANGED <<drawn, sideVars>>]_vars

\* the page is opened again on a libsodium build with or without AEGIS-256
RestartOnHost(aegis) ==
    /\ hostAegis' = aegis
    /\ masterKey' = Null
    /\ isInitialized' = FALSE
    /\ preferredAlgorithm' = "xchacha20"
    /\ last' = Outcome("restart", Null, "void", Null)
    /\ journey' = NoJourney
    /\ UNCHANGED <<localStorage, appVars, history>>

NextHost ==
    \/ initCrypto
    \/ \E p \in Passwords, s \in SaltChoices, n \in Nonces :
           setupPasswordEncryption(p, s, n, "none")
    \/ \E p \in Passwords, s \in SaltChoices, n \in Nonces :
           unlockWithPassword(p, s, n, "none")
    \/ \E st \in StoredStates, n \in Nonces : saveToStorageEncrypted(st, n, "none")
    \/ LoadStep
    \/ \E aegis \in BOOLEAN : RestartOnHost(aegis)

SpecHost == Init /\ [][NextHost /\ UNCHANGED <<drawn, sideVars>>]_vars

\* the values randombytes_buf may return for a nonce when its draws are tracked
NonceDraws == {"nonce-1", "nonce-2", "nonce-3"}

\* randombytes_buf returns n: a value it has not returned before
DrawNonce(n) == n \notin drawn /\ drawn' = drawn \cup {n}

NextNonce ==
    \/ \E k \in KeyChoices : initializeEncryption(k, "none") /\ UNCHANGED drawn
    \/ \E p \in Passwords, s \in SaltChoices, n \in NonceDraws :
           setupPasswordEncryption(p, s, n, "none") /\ DrawNonce(n)
    \/ \E p \in Passwords, s \in SaltChoices, n \in NonceDraws :
           /\ isPasswordEncryptionSetup(localStorage)
           /\ unlockWithPassword(p, s, n, "none")
           /\ UNCHANGED drawn
    \/ \E st \in StoredStates, n \in NonceDraws :
           masterKey /= Null /\ saveToStorageEncrypted(st, n, "none") /\ DrawNonce(n)
    \/ Restart /\ UNCHANGED drawn

SpecNonce == Init /\ [][NextNonce /\ UNCHANGED sideVars]_vars

NextInit ==
    \/ \E c \in Callers : CallInitCrypto(c)
    \/ \E c \in Callers : CallEncrypt(c)
    \/ \E c \in Callers : SodiumReady(c)
    \/ \E c \in Callers, pt \in Plaintexts, i \in KeyIds, n \in Nonces :
           EncryptBody(c, pt, RandomKey(i), n)
    \/ RestartCalls

SpecInit == Init /\ [][NextInit]_vars

NextImport ==
    \/ CallImportData
    \/ \E file \in ImportFiles : FileChosen(file)
    \/ \E lang \in Langs : SetLang(lang)
    \/ \E id \in {Null, Some("note-1")} : SelectNote(id)

SpecImport == Init /\ [][NextImport]_vars

NextUrl ==
    \/ \E search \in {Null} \cup {Some(id) : id \in NoteIds}, hash \in Hashes :
           OpenLink(search, hash)
    \/ extractKeyFromUrl

SpecUrl == Init /\ [][NextUrl]_vars

NextFolders ==
    \/ \E id \in FolderIds, parentId \in ParentIds : AddFolder(id, parentId)
    \/ \E id \in FolderIds, parentId \in ParentIds : MoveFolder(id, parentId)
    \/ \E id \in TreeNoteIds, parentId \in ParentIds : AddNote(id, parentId)
    \/ \E id \in FolderIds : DeleteFolder(id)

SpecFolders == Init /\ [][NextFolders]_vars

NextUndo ==
    \/ \E elapsed \in {"short", "long"} : pushState(elapsed)
    \/ undo
    \/ redo
    \/ reset
    \/ Render

SpecUndo == Init /\ [][NextUndo]_vars

\* the stores the application may start on: nothing stored, or the
\* plaintext 'skrive-state' that the load's legacy branch is there for
LegacyPlaintextStores ==
    {setItem(EmptyStorage, STORAGE_KEY, JSON_stringify(st)) : st \in StoredStates}

InitApp ==
    /\ localStorage \in {EmptyStorage} \cup LegacyPlaintextStores
    /\ InitMemory
    /\ release \in Releases

NextApp ==
    \/ AppBoot
    \/ AppBootLegacy
    \/ Upgrade
    \/ \E p \in Passwords \cup ShortPasswords, c \in Passwords : SubmitRejected(p, c)
    \/ \E p \in Passwords, s \in SaltChoices, n \in Nonces, f \in FaultsOfMigrate :
           SubmitMigrate(p, s, n, f)
    \/ \E p \in Passwords, s \in SaltChoices, n \in Nonces, pt \in {"derived", "verified"} :
           MigrationInterrupted(p, s, n, pt)
    \/ \E p \in Passwords, s \in SaltChoices, n \in Nonces, f \in Faults : SubmitSetup(p, s, n, f)
    \/ \E p \in Passwords, s \in SaltChoices, n \in Nonces : SubmitUnlock(p, s, n, "none")
    \/ MountProvider
    \/ \E k \in InitAppKeyChoices, f \in {"none", "setItem"} : InitAppEncryption(k, f)
    \/ InitAppLoad
    \/ \E n \in Nonces, f \in Faults : CompleteSave(n, f)
    \/ \E st \in StoredStates : UserEdit(st)
    \/ Restart

SpecApp == InitApp /\ [][NextApp /\ UNCHANGED <<drawn, sideVars>>]_vars

----------------------------------------------------------------------------
(* Properties *)

\* C1: once migrateFromLegacyKey(password) has returned true, the load the
\* application then makes returns exactly the state that was stored before
\* the migration (until the user changes it)
C1_MigrationKeepsStoredState ==
    (last.op = "initApp" /\ release = "password" /\ kept /= Null /\ Get(kept).notes /= <<>>)
        => last.val = kept

\* C2: a save made while no master key is set fails and writes nothing; in
\* particular no plaintext reaches 'skrive-state'
C2_LockedSaveWritesNothing ==
    [][(masterKey = Null /\ last'.op = "saveToStorageEncrypted")
        => (last'.out = "failed" /\ localStorage' = localStorage)]_vars

\* C3: a load that finds a blob it cannot decrypt under the current key
\* returns something else than the load of an empty store does
C3_UnreadableIsDistinct ==
    (last.op = "loadFromStorageEncrypted" /\ Unreadable(localStorage, masterKey))
        => last.val /= loadFromStorageEncrypted(EmptyStorage, masterKey)

\* C4: a blob the application's load could not decrypt stays in the encrypted
\* slot unchanged, after the failed load and after the save the persistence
\* effect makes on its own, for as long as the user changes nothing
C4_UnreadableBlobStays ==
    (release = "password" /\ unreadable /= Null /\ last.op \in {"initApp", "saveToStorage"})
        => getItem(localStorage, ENCRYPTED_STORAGE_KEY) = unreadable

\* C5: right after a save of S under a key, the load under that key gives S
C5_RoundTrip ==
    (last.op = "saveToStorageEncrypted" /\ last.out = "encrypted")
        => loadFromStorageEncrypted(localStorage, masterKey) = last.arg

C5_Witness ==
    /\ last.op = "saveToStorageEncrypted"
    /\ last.out = "encrypted"
    /\ Get(last.arg).lang = "en"
    /\ Get(last.arg).notes /= <<>>

\* C6: on a fresh install, setting the password P, saving S, restarting and
\* unlocking with P makes the unlock return true and the load return S
C6_SetupSaveRestartUnlockLoad ==
    journey.stage = "unlocked"
        => /\ last.op = "unlockWithPassword" => last.out = "true"
           /\ last.op = "loadFromStorageEncrypted" => last.val = journey.state
           /\ loadFromStorageEncrypted(localStorage, masterKey) = journey.state

C6_Witness ==
    /\ journey.stage = "unlocked"
    /\ last.op = "loadFromStorageEncrypted"
    /\ journey.state /= Null
    /\ Get(journey.state).notes /= <<>>

\* the key unlockWithPassword derives: Argon2id of the password and the persisted salt
DerivedKey(ls, password) ==
    crypto_pwhash(password, from_base64(Get(getItem(ls, SALT_STORAGE_KEY))))

\* the key opens the stored verification record, and what comes out is the token
OpensRecord(ls, key) ==
    decrypt(JSON_parse(Get(getItem(ls, KEY_VERIFICATION_KEY))), key) = Some(VerificationToken)

\* C7: unlockWithPassword with a password that does not open the stored
\* verification record returns false, and leaves the master key, the
\* verification record and the encrypted blob as they were
C7_WrongPasswordChangesNothing ==
    [][(/\ last'.op = "unlockWithPassword"
        /\ isPasswordEncryptionSetup(localStorage)
        /\ ~OpensRecord(localStorage, DerivedKey(localStorage, Get(last'.arg))))
        => (/\ last'.out = "false"
            /\ masterKey' = masterKey
            /\ getItem(localStorage', KEY_VERIFICATION_KEY) = getItem(localStorage, KEY_VERIFICATION_KEY)
            /\ getItem(localStorage', ENCRYPTED_STORAGE_KEY) = getItem(localStorage, ENCRYPTED_STORAGE_KEY))]_vars

C7_Witness ==
    /\ last.op = "unlockWithPassword"
    /\ last.out = "false"
    /\ masterKey /= Null
    /\ getItem(localStorage, ENCRYPTED_STORAGE_KEY) /= Null

\* C8: with a verification record stored, unlockWithPassword(p) returns true
\* and sets the master key to the key derived from p and the persisted salt
\* exactly when that key opens the record to the token; otherwise it returns false
C8_UnlockIffRecordOpens ==
    [][(last'.op = "unlockWithPassword" /\ isPasswordEncryptionSetup(localStorage))
        => IF OpensRecord(localStorage, DerivedKey(localStorage, Get(last'.arg)))
           THEN /\ last'.out = "true"
                /\ masterKey' = Some(DerivedKey(localStorage, Get(last'.arg)))
           ELSE last'.out = "false"]_vars

C8_Witness ==
    /\ last.op = "unlockWithPassword"
    /\ last.out = "true"
    /\ journey.stage = "unlocked"
    /\ masterKey = Some(DerivedKey(localStorage, journey.pw))

\* C9: when migrateFromLegacyKey fails after the new key is derived (the
\* token cannot be encrypted, or the record cannot be written), it returns
\* false and 'skrive-key' is still there, unchanged
C9_FailedMigrationKeepsLegacyKey ==
    [][(/\ last'.op = "migrateFromLegacyKey"
        /\ hasLegacyKeyStorage(localStorage)
        /\ \E p \in Passwords, s \in Salts, n \in Nonces, f \in {"encrypt", "setItem"} :
               ~SaltThrows(localStorage, f) /\ migrateFromLegacyKey(p, s, n, f))
        => (/\ last'.out = "false"
            /\ hasLegacyKeyStorage(localStorage')
            /\ getItem(localStorage', KEY_STORAGE_KEY) = getItem(localStorage, KEY_STORAGE_KEY))]_vars

C9_Witness ==
    /\ last.op = "migrateFromLegacyKey"
    /\ last.out = "false"
    /\ hasLegacyKeyStorage(localStorage)
    /\ getItem(localStorage, SALT_STORAGE_KEY) /= Null
    /\ ~isPasswordEncryptionSetup(localStorage)

\* C10: a migration cut short after the key was derived and before the
\* legacy key was removed leaves the legacy key in place, and the migration
\* tried again with the same password succeeds, sets the master key to the
\* key derived from the password, and removes the legacy key then
C10_MigrationRetryable ==
    [][/\ (last'.op = "handleSubmit.migrate" /\ last'.out \in {"interrupted", "error"})
           => getItem(localStorage', KEY_STORAGE_KEY) = getItem(localStorage, KEY_STORAGE_KEY)
       /\ \A p \in Passwords, s \in Salts, n \in Nonces :
              (interrupted = <<p, "pending">> /\ SubmitMigrate(p, s, n, "none"))
              => (/\ last'.out = "unlocked"
                  /\ masterKey' = Some(DerivedKey(localStorage', p))
                  /\ hasLegacyKeyStorage(localStorage)
                  /\ ~hasLegacyKeyStorage(localStorage'))]_vars

C10_Witness ==
    /\ last.op = "handleSubmit.migrate"
    /\ last.out = "unlocked"
    /\ interrupted = <<Get(last.arg), "retried">>
    /\ isPasswordEncryptionSetup(localStorage)
    /\ ~hasLegacyKeyStorage(localStorage)

\* C11: the prompt resolves its mode from what is stored, in this order: a
\* verification record means the password is verified (also when a legacy
\* key is stored), else a legacy key means migration, else new-user set-up
C11_ProvisioningPrecedence ==
    [][/\ last'.op = "handleSubmit.unlock" => isPasswordEncryptionSetup(localStorage)
       /\ last'.op = "handleSubmit.migrate"
              => (~isPasswordEncryptionSetup(localStorage) /\ hasLegacyKeyStorage(localStorage))
       /\ last'.op = "handleSubmit.setup"
              => (~isPasswordEncryptionSetup(localStorage) /\ ~hasLegacyKeyStorage(localStorage))]_vars

\* C12: once an encrypted blob is written, the plaintext copy 'skrive-state'
\* is not stored next to it
C12_NoPlaintextBesideBlob ==
    getItem(localStorage, ENCRYPTED_STORAGE_KEY) /= Null
        => getItem(localStorage, STORAGE_KEY) = Null

\* what the stored blob gives under the key mk: Null when it does not open
BlobContents(ls, mk) ==
    IF mk = Null \/ Unreadable(ls, mk) THEN Null
    ELSE Some(WithDefaults(JSON_parse(Get(
             decrypt(JSON_parse(Get(getItem(ls, ENCRYPTED_STORAGE_KEY))).encrypted, Get(mk))))))

\* C13: with an encrypted blob stored, load returns what the blob holds or
\* nothing, never the contents of 'skrive-state' (also when no key is set)
C13_BlobShadowsPlaintext ==
    (last.op = "loadFromStorageEncrypted" /\ getItem(localStorage, ENCRYPTED_STORAGE_KEY) /= Null)
        => last.val = BlobContents(localStorage, masterKey)

\* C14: until initApp has read the store, nothing the provider does changes
\* data stored in the encrypted slot or in the plaintext slot: the save
\* issued at mount does not get there before the load
C14_LoadBeforeMountSave ==
    [][initPc' \in {"initEnc", "load"}
        => /\ getItem(localStorage, ENCRYPTED_STORAGE_KEY) /= Null
                  => getItem(localStorage', ENCRYPTED_STORAGE_KEY)
                         = getItem(localStorage, ENCRYPTED_STORAGE_KEY)
           /\ getItem(localStorage, STORAGE_KEY) /= Null
                  => getItem(localStorage', STORAGE_KEY) = getItem(localStorage, STORAGE_KEY)]_vars

\* C15: the master key lives in memory only: no stored slot holds the
\* current master key or an encoding of it
C15_KeyNeverStored ==
    masterKey /= Null
        => getItem(localStorage, KEY_STORAGE_KEY) /= Some(exportKeyToBase64(Get(masterKey)))

\* C16: clearMasterKey fills the key buffer with zeros, leaves no master key
\* set and changes nothing that is stored; with no key set it does nothing
C16_LockZeroesAndKeepsStore ==
    [][last'.op = "clearMasterKey"
        => /\ masterKey' = Null
           /\ localStorage' = localStorage
           /\ last'.arg = masterKey
           /\ masterKey /= Null
                  => last'.val = Some([kind |-> "zeros", id |-> "", pw |-> "", salt |-> ""])
           /\ masterKey = Null
                  => /\ last'.val = Null
                     /\ UNCHANGED <<isInitialized, preferredAlgorithm, appVars>>]_vars

C16_Witness ==
    /\ last.op = "clearMasterKey"
    /\ last.arg /= Null
    /\ last.val /= Null
    /\ masterKey = Null
    /\ getItem(localStorage, ENCRYPTED_STORAGE_KEY) /= Null
    /\ getItem(localStorage, KEY_VERIFICATION_KEY) /= Null
    /\ getItem(localStorage, SALT_STORAGE_KEY) /= Null

\* C17: a stored salt is never replaced, and every key derived from a
\* password is derived with the stored salt, so the same password gives the
\* same key again
C17_SaltCreatedOnce ==
    [][/\ getItem(localStorage, SALT_STORAGE_KEY) /= Null
              => getItem(localStorage', SALT_STORAGE_KEY) = getItem(localStorage, SALT_STORAGE_KEY)
       /\ (last'.op \in {"setupPasswordEncryption", "unlockWithPassword", "migrateFromLegacyKey"}
           /\ last'.out \in {"void", "true"})
              => masterKey' = Some(crypto_pwhash(Get(last'.arg),
                                   from_base64(Get(getItem(localStorage', SALT_STORAGE_KEY)))))]_vars

C17_Witness ==
    /\ last.op = "unlockWithPassword"
    /\ last.out = "true"
    /\ masterKey /= Null
    /\ Get(masterKey).kind = "pwhash"
    /\ KeyOfBlob(getItem(localStorage, ENCRYPTED_STORAGE_KEY)) = {Get(masterKey)}

\* the nonce the stored blob carries
BlobNonce(ls) == from_base64(JSON_parse(Get(getItem(ls, ENCRYPTED_STORAGE_KEY))).encrypted.nonce)

\* C18: the nonce of every blob a save writes is the one randombytes_buf
\* returned inside that encrypt call, so it differs from the nonce of every
\* blob and record written before
C18_NoncesNeverRepeat ==
    [][(last'.op = "saveToStorageEncrypted" /\ last'.out = "encrypted")
        => /\ BlobNonce(localStorage').id \notin drawn
           /\ BlobNonce(localStorage').id \in drawn'
           /\ getItem(localStorage, ENCRYPTED_STORAGE_KEY) /= Null
                  => BlobNonce(localStorage').id /= BlobNonce(localStorage).id]_vars

C18_Witness ==
    /\ last.op = "saveToStorageEncrypted"
    /\ last.out = "encrypted"
    /\ Cardinality(drawn) = 3
    /\ journey.stage = "saved"

\* C19: decrypt of a stored blob or record under any key other than the one
\* it was encrypted with fails and gives no plaintext
C19_WrongKeyRejected ==
    /\ getItem(localStorage, ENCRYPTED_STORAGE_KEY) /= Null
           => \A k \in AllKeys \ KeyOfBlob(getItem(localStorage, ENCRYPTED_STORAGE_KEY)) :
                  decrypt(JSON_parse(Get(getItem(localStorage, ENCRYPTED_STORAGE_KEY))).encrypted, k)
                      = Null
    /\ getItem(localStorage, KEY_VERIFICATION_KEY) /= Null
           => \A k \in AllKeys :
                  from_base64(JSON_parse(Get(getItem(localStorage, KEY_VERIFICATION_KEY))).ciphertext).key /= k
                      => decrypt(JSON_parse(Get(getItem(localStorage, KEY_VERIFICATION_KEY))), k) = Null
    /\ (last.op = "loadFromStorageEncrypted" /\ masterKey /= Null
        /\ getItem(localStorage, ENCRYPTED_STORAGE_KEY) /= Null
        /\ Get(masterKey) \notin KeyOfBlob(getItem(localStorage, ENCRYPTED_STORAGE_KEY)))
           => last.val = Null

C19_Witness ==
    /\ last.op = "loadFromStorageEncrypted"
    /\ masterKey /= Null
    /\ getItem(localStorage, ENCRYPTED_STORAGE_KEY) /= Null
    /\ Get(masterKey) \notin KeyOfBlob(getItem(localStorage, ENCRYPTED_STORAGE_KEY))
    /\ hostAegis
    /\ JSON_parse(Get(getItem(localStorage, ENCRYPTED_STORAGE_KEY))).encrypted.algorithm = "aegis256"

\* C20: decrypt goes by the algorithm the blob records: a stored blob opens
\* under its key also in a process whose preferred algorithm is another one
C20_DecryptIgnoresPreference ==
    (/\ getItem(localStorage, ENCRYPTED_STORAGE_KEY) /= Null
     /\ isInitialized
     /\ JSON_parse(Get(getItem(localStorage, ENCRYPTED_STORAGE_KEY))).encrypted.algorithm
            /= preferredAlgorithm)
        => \A k \in KeyOfBlob(getItem(localStorage, ENCRYPTED_STORAGE_KEY)) :
               decrypt(JSON_parse(Get(getItem(localStorage, ENCRYPTED_STORAGE_KEY))).encrypted, k)
                   /= Null

\* C21: once the first initCrypto has completed, the preferred algorithm
\* stays what it set for the rest of the process, however later initCrypto
\* calls overlap, and every blob encrypt returns records that algorithm
C21_AlgorithmFixedOnce ==
    /\ chosen /= Null => (isInitialized /\ preferredAlgorithm = Get(chosen))
    /\ last.out = "blob" => (chosen /= Null /\ Get(last.val).algorithm = Get(chosen))
    /\ (last.op = "initCrypto" /\ last.out = "returned") => chosen /= Null

C21_Witness ==
    /\ last.op = "initCrypto"
    /\ last.out = "reprobed"
    /\ chosen = Some("aegis256")

\* the data of the file an importData call has just read, when the file is
\* within the size limit and parses
ImportedData == Get(Get(last.arg).json)

ImportReadData ==
    /\ last.op = "importData"
    /\ last.out \in {"true", "false"}
    /\ last.arg /= Null
    /\ Get(last.arg).size <= 50 * 1024 * 1024
    /\ Get(last.arg).json /= Null

\* C22: a well-shaped payload is accepted exactly when it holds at most
\* 10,000 notes, 1,000 tags and 1,000 folders, with titles of at most 500,
\* bodies of at most 1,000,000, tag names of at most 100 and folder names
\* of at most 200 characters: each ceiling itself passes, one more fails
C22_CeilingsInclusive ==
    (ImportReadData /\ ImportedData \in WellShapedData)
        => (last.out = "true"
            <=> (/\ ArrayLength(ImportedData.notes) <= 10000
                 /\ ArrayLength(ImportedData.tags) <= 1000
                 /\ ArrayLength(ImportedData.folders) <= 1000
                 /\ \A n \in ItemsOf(ImportedData.notes) :
                        n.title.length <= 500 /\ n.content.length <= 1000000
                 /\ \A g \in ItemsOf(ImportedData.tags) : g.name.length <= 100
                 /\ \A f \in ItemsOf(ImportedData.folders) : f.name.length <= 200))

C22_Witness ==
    /\ ImportReadData
    /\ last.out = "true"
    /\ ImportedData = ExportData(NotesArray(10000, 500, 1000000), TagsArray(1000, 100),
                                 FoldersArray(1000, 200))

\* C23: an import that fails leaves the reducer's state as it was; one that
\* passes replaces notes, tags and folders by the payload's three arrays
\* together and leaves the language and the selection alone
C23_ImportAtomic ==
    [][(last'.op = "importData" /\ last'.out \in {"true", "false"})
        => IF last'.out = "false" THEN uiState' = uiState
           ELSE /\ uiState'.notes = Get(Get(last'.arg).json).notes
                /\ uiState'.tags = Get(Get(last'.arg).json).tags
                /\ uiState'.folders = Get(Get(last'.arg).json).folders
                /\ uiState'.lang = uiState.lang
                /\ uiState'.selectedNoteId = uiState.selectedNoteId]_vars

C23_Witness ==
    /\ last.op = "importData"
    /\ last.out = "true"
    /\ uiState.lang = "en"
    /\ uiState.selectedNoteId /= Null
    /\ ArrayLength(uiState.notes) = 10000
    /\ ArrayLength(uiState.tags) = 1000

\* C24: a save whose encryption or storage write throws returns normally
\* to its caller and leaves the reducer's state and the master key in
\* memory as they were
C24_SaveFailureContained ==
    [][last'.op \in {"saveToStorage", "saveToStorageEncrypted"}
        => /\ last'.out \in {"encrypted", "plaintext", "failed"}
           /\ last'.out = "failed" => (appState' = appState /\ masterKey' = masterKey)]_vars

C24_Witness ==
    /\ last.op = "saveToStorage"
    /\ last.out = "failed"
    /\ appState.notes /= <<>>
    /\ masterKey /= Null
    /\ getItem(localStorage, ENCRYPTED_STORAGE_KEY) = Null

\* the EncryptedData values in the store: the blob's and the verification record
StoredEncryptedData(ls) ==
    (IF getItem(ls, ENCRYPTED_STORAGE_KEY) = Null THEN {}
     ELSE {JSON_parse(Get(getItem(ls, ENCRYPTED_STORAGE_KEY))).encrypted})
    \cup (IF getItem(ls, KEY_VERIFICATION_KEY) = Null THEN {}
          ELSE {JSON_parse(Get(getItem(ls, KEY_VERIFICATION_KEY)))})

\* C25: every EncryptedData that encrypt produced records the algorithm the
\* process encrypts with, version 1, and a nonce of 32 bytes for
\* 'aegis256' and of 24 bytes for 'xchacha20'
C25_NonceLengthMatchesAlgorithm ==
    \A e \in StoredEncryptedData(localStorage) :
        /\ e.algorithm = DetectAlgorithm
        /\ e.version = 1
        /\ e.algorithm = "aegis256" => from_base64(e.nonce).len = 32
        /\ e.algorithm = "xchacha20" => from_base64(e.nonce).len = 24
        /\ from_base64(e.ciphertext).nonce = from_base64(e.nonce)

C25_Witness ==
    /\ last.op = "saveToStorageEncrypted"
    /\ last.out = "encrypted"
    /\ Cardinality(StoredEncryptedData(localStorage)) = 2
    /\ \A e \in StoredEncryptedData(localStorage) : e.algorithm = "aegis256"

\* C26: when the fragment contains 'key=', the URL is without it once
\* extractKeyFromUrl has returned, whether it returned a key or null
C26_KeyClearedFromUrl ==
    [][(last'.op = "extractKeyFromUrl" /\ location.hash.hasKeyEq)
        => ~location'.hash.hasKeyEq]_vars

\* C27: whenever setupPasswordEncryption, unlockWithPassword or
\* migrateFromLegacyKey has set the master key, also when one of its steps
\* failed, the store holds a verification record that opens to the
\* verification token under that key
C27_KeyMatchesRecord ==
    [][(/\ last'.op \in {"setupPasswordEncryption", "unlockWithPassword", "migrateFromLegacyKey"}
        /\ masterKey' /= Null
        /\ masterKey' /= masterKey)
        => (/\ isPasswordEncryptionSetup(localStorage')
            /\ OpensRecord(localStorage', Get(masterKey')))]_vars

\* C28: a save whose encryption or blob write fails leaves 'skrive-state'
\* holding what it held, and a save removes the plaintext only in the step
\* that has written the encrypted blob
C28_PlaintextOutlivesFailedSave ==
    [][last'.op \in {"saveToStorage", "saveToStorageEncrypted"}
        => /\ last'.out = "failed"
                  => getItem(localStorage', STORAGE_KEY) = getItem(localStorage, STORAGE_KEY)
           /\ (getItem(localStorage, STORAGE_KEY) /= Null /\ getItem(localStorage', STORAGE_KEY) = Null)
                  => (last'.out = "encrypted" /\ getItem(localStorage', ENCRYPTED_STORAGE_KEY) /= Null)]_vars

C28_Witness ==
    /\ last.op = "saveToStorage"
    /\ last.out = "failed"
    /\ masterKey /= Null
    /\ getItem(localStorage, STORAGE_KEY) /= Null
    /\ getItem(localStorage, ENCRYPTED_STORAGE_KEY) = Null

\* C29: DELETE_FOLDER returns for every folder list, cyclic or not, after
\* at most two calls of deleteRecursive per folder and one more; it removes
\* exactly the folder, the folders below it and the notes whose parentId is
\* one of them, and keeps every other folder and note as it was
C29_DeleteFolderRemovesSubtree ==
    [][last'.op = "DELETE_FOLDER"
        => LET gone == Subtree({Get(last'.arg)}, tree.folders)
           IN  /\ tree'.folders = SelectSeq(tree.folders, LAMBDA f : f.id \notin gone)
               /\ tree'.notes = SelectSeq(tree.notes,
                                       LAMBDA n : n.parentId = Null \/ Get(n.parentId) \notin gone)
               /\ Get(last'.val).steps <= 2 * Len(tree.folders) + 1]_vars

C29_Witness ==
    /\ last.op = "DELETE_FOLDER"
    /\ Get(last.val).cyclic
    /\ Cardinality(Get(last.val).removed) = 2
    /\ Len(tree.folders) = 1
    /\ Len(tree.notes) = 1

\* C30: after a pushState that appended an entry the current index is that
\* of the last entry, so nothing is left to redo, whatever calls were made
\* since the last render; the index is always within the history, and the
\* history never holds more than 100 entries
C30_PushLeavesNoRedo ==
    [][/\ (last'.op = "pushState" /\ last'.out = "appended")
           => hook'.currentIndex = Len(hook'.history) - 1
       /\ hook'.currentIndex \in 0..(Len(hook'.history) - 1)
       /\ Len(hook'.history) <= 100]_vars

====
